---- MODULE Spec2Model ----
(***************************************************************************)
(* Scan lifecycle, layer control, metrics and narrative report of the      *)
(* AquaSense dashboard.                                                    *)
(*                                                                         *)
(* Two pages are modelled, selected by the variable file:                  *)
(*   "app"    src/app.js                                                   *)
(*   "export" src/frontend_export/script.js                                *)
(*                                                                         *)
(* src/app.js declares  async function startScanning  twice (lines 165 and *)
(* 353).  In a classic script the later function declaration replaces the  *)
(* earlier one before any statement runs, so the function that onMapClick  *)
(* calls is the one of lines 353-399: it passes no abort signal to fetch   *)
(* and never assigns scanController.                                       *)
(*                                                                         *)
(* Coordinates are integers in units of 0.0001 degree; areas and volumes   *)
(* are integers.                                                           *)
(***************************************************************************)
EXTENDS Integers, Sequences, FiniteSets, TLC

\* ---------------------------------------------------------------- bounds
MaxScans == 2        \* analysis requests issued in one behaviour
MaxTriggers == 1     \* triggerAI timers pending at the same time
MaxToggles == 3      \* change events of layer checkboxes in one behaviour
MaxVolume == 6       \* updateMetrics run alone: volume, max_volume in -MaxVolume..MaxVolume

\* ------------------------------------------------------- program constants
DefaultLat == 124244     \* 12.4244
DefaultLng == 765761     \* 76.5761
TriggerOffset == 50      \* 0.005
FillCap == 100
LowFill == 30
HighFill == 80

Files == {"app", "export"}
Modes == {"click", "draw"}

\* the points the user clicks, and the centres of the shapes the user draws
ClickPoints == { [lat |-> 100000, lng |-> 700000] }
DrawCentres == { [lat |-> 200000, lng |-> 800000] }

LayerKeys == {"analytics", "depth", "water_mask", "winter", "summer", "monsoon"}

VARIABLES
    file,               \* which page is loaded
    mode,               \* state.mode
    currentLat,         \* state.currentLat
    currentLng,         \* state.currentLng
    currentArea,        \* state.currentArea            (app.js only)
    currentVol,         \* state.currentVol             (app.js only)
    layers,             \* state.layers                 (assigned in app.js only)
    isScanning,         \* state.isScanning
    scanController,     \* let scanController = null;   0 is null
    overlay,            \* #scanning-overlay style.display
    statusText,         \* #scan-status innerText
    statusRed,          \* #scan-status has class text-red-500
    dispLat,            \* #dispLat innerText, in units of 0.00001 degree
    dispLon,            \* #dispLon innerText
    layerGroup,         \* state.layerGroup: the layers it holds, in order
    metrics,            \* metric display and fill bar
    charts,             \* state.charts.trend / .seasonal data
    layerControl,       \* #layerControl: the toggles it holds, in order
    layerControlPanel,  \* #layerControlPanel is visible
    overlayLayerGroup,  \* overlayLayerGroup: the tile layers it holds
    toast,              \* #toast-notification: last message and its type
    sess,               \* one record per startScanning / startAnalysis call
    aiTimers,           \* pending setTimeout callbacks of triggerAI
    lastOp,             \* what the last step handled
    toggles,            \* change events of layer checkboxes handled so far
    arg,                \* the result handed to updateMetrics when it is run alone
    aiBtn,              \* #aiBtn: disabled flag and label
    aiModal,            \* #aiModal: "hidden" or "flex"
    aiContent,          \* #aiContent innerHTML: the pieces of its markup
    aiReq               \* the request to /api/gemini that is out, if any

vars == << file, mode, currentLat, currentLng, currentArea, currentVol, layers,
           isScanning, scanController, overlay, statusText, statusRed,
           dispLat, dispLon, layerGroup, metrics, charts,
           layerControl, layerControlPanel, overlayLayerGroup, toast, sess,
           aiTimers, lastOp, toggles, arg, aiBtn, aiModal, aiContent, aiReq >>

\* the state that no handler of the scan lifecycle writes
beside == << toggles, arg, aiBtn, aiModal, aiContent, aiReq >>

\* everything a scan result is displayed in or stored to
displayed == << metrics, charts, layerControl, layerControlPanel,
                overlayLayerGroup, currentArea, currentVol, layers >>


\* ------------------------------------------------------------ small helpers
Min(a, b) == IF a < b THEN a ELSE b

\* Math.round(n / d) for integers n, d with d # 0: floor(n/d + 1/2)
Round(n, d) == IF d > 0 THEN (2 * n + d) \div (2 * d)
                        ELSE (0 - 2 * n - d) \div (0 - 2 * d)

\* Number.prototype.toFixed(5) of a coordinate that has four decimals:
\* the same number written with five decimals (units of 0.00001 degree)
ToFixed5(c) == 10 * c

NoLayers == [k \in {} |-> 0]

\* ---------------------------------------------- bodies of /api/analyze
\* A JSON body.  error = "" stands for no (or an empty) error field,
\* max_volume = 0 for an absent one; hasLayers / hasSeasonal tell whether the
\* layers mapping / the seasonal object is present.  layers maps each key
\* that is present to its tile URL (an integer names the URL).
ErrorBody == [ error |-> "X", area |-> 0, volume |-> 0, avg_elevation |-> 0,
               max_volume |-> 0, hasLayers |-> FALSE, layers |-> NoLayers,
               hasSeasonal |-> FALSE, seasonal |-> << 0, 0, 0 >> ]

\* the results the backend may return for the s-th request: a complete one,
\* one without the optional seasonal object, one without the layers mapping
ResultFor(s, ks, hl, hs) ==
    [ error |-> "", area |-> s, volume |-> 10 * s, avg_elevation |-> 100 + s,
      max_volume |-> 40, hasLayers |-> hl,
      layers |-> IF hl THEN [k \in ks |-> s] ELSE NoLayers,
      hasSeasonal |-> hs,
      seasonal |-> IF hs THEN << s, s + 1, s + 2 >> ELSE << 0, 0, 0 >> ]

ResultsFor(s) ==
    { ResultFor(s, LayerKeys, TRUE, TRUE),
      ResultFor(s, {"analytics", "depth"}, TRUE, FALSE),
      ResultFor(s, {}, FALSE, TRUE) }

BodiesFor(s) == { ErrorBody } \cup ResultsFor(s)

\* ------------------------------------------------------------ updateMetrics
\* the blue bucket starting at 80
FillClassFrom80(isNaN, pct) ==
    IF (~isNaN) /\ pct < LowFill THEN "bg-red-500"
    ELSE IF (~isNaN) /\ pct >= HighFill THEN "bg-blue-500"
    ELSE "bg-cyan-500"

\* the class of the fill bar: fillPct < 30 ? red : fillPct > 80 ? blue : cyan;
\* every comparison with NaN is false
FillClass(isNaN, pct) ==
    IF (~isNaN) /\ pct < LowFill THEN "bg-red-500"
    ELSE IF (~isNaN) /\ pct > HighFill THEN "bg-blue-500"
    ELSE "bg-cyan-500"

\* app.js: capacity = max_volume > 0 ? max_volume : volume * 1.5
\*         fillPct  = capacity > 0 ? min(100, round(volume / capacity * 100)) : 0
\* cap2 is twice the capacity, which keeps the arithmetic in the integers
fillPctApp(volume, max_volume) ==
    LET cap2 == IF max_volume > 0 THEN 2 * max_volume ELSE 3 * volume
    IN  IF cap2 > 0 THEN Min(FillCap, Round(200 * volume, cap2)) ELSE 0

updateMetricsApp(data) ==
    LET pct == fillPctApp(data.volume, data.max_volume)
    IN  [ area |-> data.area, volume |-> data.volume, fillNaN |-> FALSE,
          fillPct |-> pct, fillClass |-> FillClass(FALSE, pct),
          elev |-> data.avg_elevation ]

\* script.js: capacity = max_volume || volume * 1.5
\*            fillPct  = min(100, round(volume / capacity * 100))
\* 0 / 0 is NaN, and Math.min(100, NaN) is NaN
updateMetricsExport(data) ==
    LET cap2  == IF data.max_volume # 0 THEN 2 * data.max_volume ELSE 3 * data.volume
        isNaN == cap2 = 0
        pct   == IF isNaN THEN 0 ELSE Min(FillCap, Round(200 * data.volume, cap2))
    IN  [ area |-> data.area, volume |-> data.volume, fillNaN |-> isNaN,
          fillPct |-> pct, fillClass |-> FillClass(isNaN, pct),
          elev |-> data.avg_elevation ]

\* ------------------------------------------------------------- updateCharts
\* The trend series is twelve random multiples of the volume: it is
\* represented by its base.  The seasonal series is replaced only when the
\* result carries a seasonal object.
updateCharts(ch, vol, hasSeasonal, seasonal) ==
    [ trend |-> vol,
      seasonal |-> IF hasSeasonal THEN seasonal ELSE ch.seasonal ]

\* -------------------------------------------------------- updateLayerControl
\* the createToggle calls of app.js, in order
ToggleOrder == << [key |-> "analytics",  isDefault |-> TRUE],
                  [key |-> "depth",      isDefault |-> TRUE],
                  [key |-> "water_mask", isDefault |-> FALSE],
                  [key |-> "winter",     isDefault |-> FALSE],
                  [key |-> "summer",     isDefault |-> FALSE],
                  [key |-> "monsoon",    isDefault |-> FALSE] >>

zIndex(key) == IF key = "analytics" THEN 10 ELSE 5

\* toggleLayer(false) that forgets its layer and leaves it in the group
toggleLayerOffForgets(ctl, grp, i, isChecked, lyrs) ==
    LET t       == ctl[i]
        less    == IF t.active # << >>
                   THEN SelectSeq(grp, LAMBDA l : l # t.active[1])
                   ELSE grp
        created == [ key |-> t.key, url |-> lyrs[t.key], z |-> zIndex(t.key) ]
    IN  IF isChecked
        THEN [ ctl |-> [ctl EXCEPT ![i].active = << created >>],
               grp |-> Append(less, created) ]
        ELSE [ ctl |-> [ctl EXCEPT ![i].active = << >>],
               grp |-> grp ]

\* toggleLayer(true) that leaves the layer it rendered before in the group
toggleLayerKeepsOld(ctl, grp, i, isChecked, lyrs) ==
    LET t       == ctl[i]
        less    == IF t.active # << >>
                   THEN SelectSeq(grp, LAMBDA l : l # t.active[1])
                   ELSE grp
        created == [ key |-> t.key, url |-> lyrs[t.key], z |-> zIndex(t.key) ]
    IN  IF isChecked
        THEN [ ctl |-> [ctl EXCEPT ![i].active = << created >>],
               grp |-> Append(grp, created) ]
        ELSE [ ctl |-> [ctl EXCEPT ![i].active = << >>],
               grp |-> less ]

\* toggleLayer(isChecked) of the toggle at position i of ctl, acting on the
\* overlay group grp; a tile layer is [key, url, z]; the closure variable
\* activeLayer of a toggle is its field active, a sequence holding the
\* layer, or empty for null
toggleLayer(ctl, grp, i, isChecked, lyrs) ==
    LET t       == ctl[i]
        less    == IF t.active # << >>
                   THEN SelectSeq(grp, LAMBDA l : l # t.active[1])
                   ELSE grp
        created == [ key |-> t.key, url |-> lyrs[t.key], z |-> zIndex(t.key) ]
    IN  IF isChecked
        THEN [ ctl |-> [ctl EXCEPT ![i].active = << created >>],
               grp |-> Append(less, created) ]
        ELSE [ ctl |-> [ctl EXCEPT ![i].active = << >>],
               grp |-> less ]

\* createToggle for the entries i.. of ToggleOrder
RECURSIVE createToggles(_, _, _, _)
createToggles(i, lyrs, ctl, grp) ==
    IF i > Len(ToggleOrder) THEN [ ctl |-> ctl, grp |-> grp ]
    ELSE LET d == ToggleOrder[i]
         IN  IF d.key \notin DOMAIN lyrs
             THEN createToggles(i + 1, lyrs, ctl, grp)
             ELSE LET wrap == [ key |-> d.key, checked |-> d.isDefault, active |-> << >> ]
                      ctl1 == Append(ctl, wrap)
                      on   == IF d.isDefault
                              THEN toggleLayer(ctl1, grp, Len(ctl1), TRUE, lyrs)
                              ELSE [ ctl |-> ctl1, grp |-> grp ]
                  IN  createToggles(i + 1, lyrs, on.ctl, on.grp)

\* updateLayerControl(layers) with a layers mapping: a new overlay group, an
\* emptied container, one toggle per present key, the panel shown
updateLayerControl(lyrs) == createToggles(1, lyrs, << >>, << >>)

\* --------------------------------------------------- updateLayers (script.js)
\* the addLayerToggle calls of script.js, in order, with the ids it uses
ExportOrder == << [key |-> "water_mask", id |-> "water"],
                  [key |-> "depth",      id |-> "depth"],
                  [key |-> "analytics",  id |-> "contour"],
                  [key |-> "winter",     id |-> "winter"],
                  [key |-> "summer",     id |-> "summer"],
                  [key |-> "monsoon",    id |-> "monsoon"] >>

RECURSIVE addLayerToggles(_, _, _)
addLayerToggles(i, lyrs, ctl) ==
    IF i > Len(ExportOrder) THEN ctl
    ELSE LET d == ExportOrder[i]
         IN  IF d.key \notin DOMAIN lyrs
             THEN addLayerToggles(i + 1, lyrs, ctl)
             ELSE addLayerToggles(i + 1, lyrs,
                     Append(ctl, [ key |-> d.key, checked |-> FALSE,
                                   active |-> << [ key |-> d.key, url |-> lyrs[d.key], z |-> 0 ] >> ]))

\* the selection marker put on the map at a point
Marker(lat, lng) == [ key |-> "marker", url |-> lat, z |-> lng ]

\* ------------------------------------------------------------------ toasts
Toast(type, msg, reason) == [ type |-> type, msg |-> msg, reason |-> reason ]

\* lastOp tells what the last step handled, where the state it leaves does
\* not tell: for an onMapClick call, the event that made the call and whether
\* the call got past its early returns; for a request that settled on a
\* non-2xx response or on a body with an error field, which of the two.
Gesture(op, accepted) == [ op |-> op, accepted |-> accepted ]
Handler(op) == [ op |-> op, accepted |-> TRUE ]
Other == Handler("other")
Gestures == {"click", "draw", "aiTimer"}

EmptyMetrics == [ area |-> 0, volume |-> 0, fillNaN |-> FALSE, fillPct |-> 0,
                  fillClass |-> "", elev |-> 0 ]

\* ----------------------------------------------------------------- sessions
\* sess[s] is the s-th call of startScanning (startAnalysis in script.js):
\*   lat, lng   the body of its POST /api/analyze, while the request is out
\*   st         "fetch"  awaiting fetch(...)
\*              "json"   awaiting response.json()
\*              "timer"  settled, its setTimeout of the finally block pending
\*              "done"   nothing of it is pending any more
\*   outcome    "success" or "failed" from the step that settles it until
\*              its hide timer has fired, "" otherwise
\*   cancelled  cancelScanning ran while it was the current scan and its
\*              request was out
Sessions == DOMAIN sess
Outstanding(s) == sess[s].st \in {"fetch", "json"}
Superseded(s) == s < Len(sess)
Stale(s) == sess[s].cancelled \/ Superseded(s)

\* --------------------------------------------------------------------- Init
\* the state after DOMContentLoaded: initMap(), initCharts(), setMode('click')
\* the page as loaded
PageLoaded ==
    /\ mode = "click"
    /\ currentLat = 0
    /\ currentLng = 0
    /\ currentArea = 0
    /\ currentVol = 0
    /\ layers = [ defined |-> TRUE, url |-> NoLayers ]
    /\ isScanning = FALSE
    /\ scanController = 0
    /\ overlay = "none"
    /\ statusText = ""
    /\ statusRed = FALSE
    /\ dispLat = 0
    /\ dispLon = 0
    /\ layerGroup = << >>
    /\ metrics = EmptyMetrics
    /\ charts = [ trend |-> 0, seasonal |-> << 0, 0, 0 >> ]
    /\ layerControl = << >>
    /\ layerControlPanel = FALSE
    /\ overlayLayerGroup = << >>
    /\ toast = Toast("info", "Click Mode", "")
    /\ sess = << >>
    /\ aiTimers = 0
    /\ lastOp = Other
    /\ toggles = 0
    /\ aiBtn = [ disabled |-> FALSE, label |-> "AI Analysis" ]
    /\ aiModal = "hidden"
    /\ aiContent = << >>
    /\ aiReq = << >>

\* app.js or frontend_export/script.js as loaded
Loaded == file \in Files /\ PageLoaded

\* a result with the fields updateMetrics reads
MetricData(volume, max_volume) ==
    [ area |-> 0, volume |-> volume, max_volume |-> max_volume, avg_elevation |-> 0 ]

Init == Loaded /\ arg = MetricData(0, 0)

\* ------------------------------------------------- updateMetrics run alone
\* Volumes are integers in one unit, whatever it is: the fill percentage
\* depends on the ratio of volume and capacity only.  Example1 is volume
\* 12.8, max_volume 15.0 and Example2 volume 4.52 without max_volume, both
\* in units of 0.01.
Example1 == MetricData(1280, 1500)
Example2 == MetricData(452, 0)

MetricInputs ==
    { MetricData(v, m) : v \in (0 - MaxVolume)..MaxVolume,
                         m \in (0 - MaxVolume)..MaxVolume }
      \cup { Example1, Example2 }

MetricsInit == Loaded /\ arg \in MetricInputs

\* updateMetrics(arg)
UpdateMetrics ==
    /\ metrics' = IF file = "app" THEN updateMetricsApp(arg) ELSE updateMetricsExport(arg)
    /\ lastOp' = Handler("updateMetrics")
    /\ UNCHANGED << file, mode, currentLat, currentLng, currentArea, currentVol,
                    layers, isScanning, scanController, overlay, statusText,
                    statusRed, dispLat, dispLon, layerGroup, charts, layerControl,
                    layerControlPanel, overlayLayerGroup, toast, sess, aiTimers,
                    toggles, arg, aiBtn, aiModal, aiContent, aiReq >>

MetricsSpec == MetricsInit /\ [][UpdateMetrics]_vars

\* ------------------------------------------------------------------ setMode
setMode(m) ==
    /\ mode' = m
    /\ toast' = Toast("info", IF m = "draw" THEN "Draw Mode" ELSE "Click Mode", "")
    /\ lastOp' = Other
    /\ UNCHANGED << file, beside, currentLat, currentLng, currentArea, currentVol, layers,
                    isScanning, scanController, overlay, statusText, statusRed,
                    dispLat, dispLon, layerGroup, metrics, charts,
                    layerControl, layerControlPanel, overlayLayerGroup, sess,
                    aiTimers >>

\* --------------------------------------------------------------- onMapClick
\* onMapClick without its first early return
ignoresClickInDrawModeOnly(isDraw) == mode = "draw" /\ ~isDraw

\* onMapClick without its second early return
ignoresClickWhileScanningOnly(isDraw) == isScanning

\* onMapClick whose first early return lets draw-created events through
ignoresClickNotDraw(isDraw) == (isScanning /\ ~isDraw) \/ (mode = "draw" /\ ~isDraw)

\* the two early returns of onMapClick
ignoresClick(isDraw) == isScanning \/ (mode = "draw" /\ ~isDraw)

\* the status text startScanning / startAnalysis leaves when it reaches await
scanningText == IF file = "app" THEN "Analyzing Satellite Data..."
                                ELSE "Acquiring Multispectral Imagery..."

\* startScanning that sets state.isScanning and leaves the overlay alone
startScanningOverlayLeft(lat, lng) ==
    /\ isScanning' = TRUE
    /\ UNCHANGED overlay
    /\ statusText' = scanningText
    /\ sess' = Append(sess, [ lat |-> lat, lng |-> lng, st |-> "fetch",
                              outcome |-> "", cancelled |-> FALSE ])

\* startScanning (app.js 353-368) / startAnalysis (script.js 131-152) up to
\* the await of fetch: the request carries state.currentLat / currentLng
startScanning(lat, lng) ==
    /\ isScanning' = TRUE
    /\ overlay' = "flex"
    /\ statusText' = scanningText
    /\ sess' = Append(sess, [ lat |-> lat, lng |-> lng, st |-> "fetch",
                              outcome |-> "", cancelled |-> FALSE ])

\* onMapClick(e) with e.latlng = (lat, lng) and e.isDraw = isDraw; op names
\* the event that called it.  aiTimers is left to the caller.
onMapClick(op, lat, lng, isDraw) ==
    IF ignoresClick(isDraw)
    THEN /\ lastOp' = Gesture(op, FALSE)
         /\ UNCHANGED << file, beside, mode, currentLat, currentLng, currentArea,
                         currentVol, layers, isScanning, scanController, overlay,
                         statusText, statusRed, dispLat, dispLon, layerGroup,
                         metrics, charts, layerControl, layerControlPanel,
                         overlayLayerGroup, toast, sess >>
    ELSE /\ Len(sess) < MaxScans
         /\ currentLat' = lat
         /\ currentLng' = lng
         /\ dispLat' = ToFixed5(lat)
         /\ dispLon' = ToFixed5(lng)
         /\ layerGroup' = << Marker(lat, lng) >>
         /\ startScanning(lat, lng)
         /\ lastOp' = Gesture(op, TRUE)
         /\ UNCHANGED << file, beside, mode, currentArea, currentVol, layers,
                         scanController, statusRed, metrics, charts, layerControl,
                         layerControlPanel, overlayLayerGroup, toast >>

\* state.map.on('click', onMapClick)
MapClick ==
    \E p \in ClickPoints :
        /\ onMapClick("click", p.lat, p.lng, FALSE)
        /\ UNCHANGED aiTimers

\* state.map.on(L.Draw.Event.CREATED, ...): the draw toolbar is on the map
\* only in draw mode.  The handler calls onMapClick with the centre of the
\* shape; the shape itself, kept in state.drawnItems, is read by no handler
\* and is not represented.
DrawCreated ==
    \E p \in DrawCentres :
        /\ mode = "draw"
        /\ onMapClick("draw", p.lat, p.lng, TRUE)
        /\ UNCHANGED aiTimers

SetMode == \E m \in Modes : setMode(m)

\* ---------------------------------------------------------------- triggerAI
\* triggerAI() of app.js: flyTo, and a 1600 ms timer
TriggerAI ==
    /\ file = "app"
    /\ aiTimers < MaxTriggers
    /\ aiTimers' = aiTimers + 1
    /\ lastOp' = Other
    /\ UNCHANGED << file, beside, mode, currentLat, currentLng, currentArea, currentVol,
                    layers, isScanning, scanController, overlay, statusText,
                    statusRed, dispLat, dispLon, layerGroup, metrics,
                    charts, layerControl, layerControlPanel, overlayLayerGroup,
                    toast, sess >>

\* x || d
OrDefault(x, d) == IF x # 0 THEN x ELSE d

\* the timer callback of triggerAI
TriggerAITimer ==
    /\ aiTimers > 0
    /\ aiTimers' = aiTimers - 1
    /\ onMapClick("aiTimer", OrDefault(currentLat, DefaultLat) + TriggerOffset,
                             OrDefault(currentLng, DefaultLng) + TriggerOffset, FALSE)

\* ----------------------------------------------------------- cancelScanning
\* app.js 236-245; script.js 247-251 neither touches scanController nor
\* clears state.layerGroup.  The fetch of lines 364-368 was given no signal:
\* no request is aborted.
CancelScanning ==
    /\ scanController' = IF file = "app" THEN 0 ELSE scanController
    /\ overlay' = "none"
    /\ isScanning' = FALSE
    /\ layerGroup' = IF file = "app" THEN << >> ELSE layerGroup
    /\ toast' = Toast("info", "Cancelled.", "")
    /\ sess' = IF isScanning /\ sess # << >> /\ Outstanding(Len(sess))
               THEN [sess EXCEPT ![Len(sess)].cancelled = TRUE]
               ELSE sess
    /\ lastOp' = Handler("cancel")
    /\ UNCHANGED << file, beside, mode, currentLat, currentLng, currentArea, currentVol,
                    layers, statusText, statusRed, dispLat, dispLon, metrics, charts, layerControl, layerControlPanel,
                    overlayLayerGroup, aiTimers >>

\* ------------------------------------------------- settling of one request
\* the error field of the body never looked at
hasErrorIgnored(data) == FALSE

\* if (data.error) throw new Error(data.error)
hasError(data) == data.error # ""

\* the message of the Error thrown for a non-2xx response
notOkMessage == IF file = "app" THEN "Analysis Service Failed"
                                ELSE "Analysis Failed: statusText"

\* the catch block: app.js 387-392, script.js 173-176
catchBlock(reason) ==
    /\ toast' = Toast("error", IF file = "app" THEN "Analysis Failed: " ELSE "Error: ", reason)
    /\ statusText' = IF file = "app" THEN "Error." ELSE "ERROR"
    /\ statusRed' = IF file = "app" THEN TRUE ELSE statusRed

\* a hide timer armed on the success path only
finallyAfterSuccessOnly(outcome) == IF outcome = "success" THEN "timer" ELSE "done"

\* the finally block: app.js 393-398 (500 ms), script.js 177-183 (800 ms).
\* It arms the hide timer after every outcome.
finallyBlock(outcome) == "timer"

\* a failed request sent again by the page itself
settledWithRetry(s, outcome) ==
    LET done == [sess EXCEPT ![s] = [ lat |-> 0, lng |-> 0, st |-> finallyBlock(outcome),
                                      outcome |-> outcome, cancelled |-> FALSE ]]
    IN  IF outcome = "failed"
        THEN Append(done, [ lat |-> currentLat, lng |-> currentLng, st |-> "fetch",
                            outcome |-> "", cancelled |-> FALSE ])
        ELSE done

\* the session record once its request is settled; catch and finally issue no
\* further request
settled(s, outcome) ==
    [sess EXCEPT ![s] = [ lat |-> 0, lng |-> 0, st |-> finallyBlock(outcome),
                          outcome |-> outcome, cancelled |-> FALSE ]]

\* the request of session s fails before any of the body is used
failEarly(s, reason) ==
    /\ catchBlock(reason)
    /\ sess' = settled(s, "failed")
    /\ UNCHANGED << file, beside, mode, currentLat, currentLng, currentArea, currentVol,
                    layers, isScanning, scanController, overlay, dispLat, dispLon,
                    layerGroup, metrics, charts, layerControl,
                    layerControlPanel, overlayLayerGroup, aiTimers >>

\* fetch(...) resolves with a response whose ok flag is ok
FetchResolve ==
    \E s \in Sessions, ok \in BOOLEAN :
        /\ sess[s].st = "fetch"
        /\ IF ok
           THEN /\ sess' = [sess EXCEPT ![s].st = "json"]
                /\ statusText' = IF file = "export" THEN "Processing GEE Algorithms..."
                                                    ELSE statusText
                /\ lastOp' = Other
                /\ UNCHANGED << file, beside, mode, currentLat, currentLng, currentArea,
                                currentVol, layers, isScanning, scanController,
                                overlay, statusRed, dispLat, dispLon, layerGroup,
                                metrics, charts, layerControl,
                                layerControlPanel, overlayLayerGroup, toast,
                                aiTimers >>
           ELSE /\ failEarly(s, notOkMessage)
                /\ lastOp' = Handler("notOk")

\* fetch(...) rejects: the network failed
FetchReject ==
    \E s \in Sessions :
        /\ sess[s].st = "fetch"
        /\ failEarly(s, "Failed to fetch")
        /\ lastOp' = Other

\* response.json() rejects: the body is not JSON
JsonReject ==
    \E s \in Sessions :
        /\ sess[s].st = "json"
        /\ failEarly(s, "Unexpected token")
        /\ lastOp' = Other

\* the success path of app.js, lines 375-385, for a body without error.
\* updateLayerControl(undefined) replaces the overlay group, empties the
\* container and then throws in the first createToggle (layers[key] of
\* undefined), which the catch block of lines 387-392 reports.
applyApp(s, data) ==
    /\ currentArea' = data.area
    /\ currentVol' = data.volume
    /\ layers' = [ defined |-> data.hasLayers, url |-> data.layers ]
    /\ metrics' = updateMetricsApp(data)
    /\ charts' = updateCharts(charts, data.volume, data.hasSeasonal, data.seasonal)
    /\ IF data.hasLayers
       THEN LET r == updateLayerControl(data.layers)
            IN  /\ layerControl' = r.ctl
                /\ overlayLayerGroup' = r.grp
                /\ layerControlPanel' = TRUE
                /\ statusText' = "Complete."
                /\ statusRed' = statusRed
                /\ toast' = Toast("success", "Analysis Complete.", "")
                /\ sess' = settled(s, "success")
       ELSE /\ layerControl' = << >>
            /\ overlayLayerGroup' = << >>
            /\ layerControlPanel' = layerControlPanel
            /\ catchBlock("Cannot read properties of undefined")
            /\ sess' = settled(s, "failed")
    /\ UNCHANGED << file, beside, mode, currentLat, currentLng, isScanning, scanController,
                    overlay, dispLat, dispLon, layerGroup, aiTimers >>

\* the success path of script.js, lines 166-171: updateMetrics, updateLayers
applyExport(s, data) ==
    /\ metrics' = updateMetricsExport(data)
    /\ IF data.hasLayers
       THEN /\ layerGroup' = << Marker(currentLat, currentLng) >>
            /\ layerControl' = addLayerToggles(1, data.layers, << >>)
            /\ layerControlPanel' = TRUE
       ELSE UNCHANGED << layerGroup, layerControl, layerControlPanel >>
    /\ statusText' = "Finalizing Report..."
    /\ toast' = Toast("success", "Analysis Complete", "")
    /\ sess' = settled(s, "success")
    /\ UNCHANGED << file, beside, mode, currentLat, currentLng, currentArea, currentVol,
                    layers, isScanning, scanController, overlay, statusRed,
                    dispLat, dispLon, charts, overlayLayerGroup,
                    aiTimers >>

\* response.json() resolves with the body data
JsonResolve ==
    \E s \in Sessions :
        /\ sess[s].st = "json"
        /\ \E data \in BodiesFor(s) :
              /\ lastOp' = IF data.error # "" THEN Handler("errorBody")
                           ELSE IF data.hasLayers THEN Handler("layers")
                           ELSE Other
              /\ IF hasError(data) THEN failEarly(s, data.error)
                 ELSE IF file = "app" THEN applyApp(s, data)
                 ELSE applyExport(s, data)

\* the timer armed by the finally block fires
HideTimer ==
    \E s \in Sessions :
        /\ sess[s].st = "timer"
        /\ overlay' = "none"
        /\ isScanning' = FALSE
        /\ sess' = [sess EXCEPT ![s].st = "done", ![s].outcome = ""]
        /\ lastOp' = Other
        /\ UNCHANGED << file, beside, mode, currentLat, currentLng, currentArea, currentVol,
                        layers, scanController, statusText, statusRed, dispLat,
                        dispLon, layerGroup, metrics, charts,
                        layerControl, layerControlPanel, overlayLayerGroup, toast,
                        aiTimers >>

\* ---------------------------------------------------------- generateAIReport
\* A JSON body of /api/gemini.  isNull: the body is the JSON value null.
\* A property that is absent is the empty sequence; text = "" stands for an
\* absent or empty text.
NarrativeBody(isNull, candidates) == [ isNull |-> isNull, candidates |-> candidates ]
Part(text) == [ text |-> text ]
Content(parts) == [ parts |-> parts ]
Candidate(content) == [ content |-> content ]

NarrativeBodies ==
    { NarrativeBody(TRUE, << >>),
      NarrativeBody(FALSE, << >>),
      NarrativeBody(FALSE, << Candidate(<< >>) >>),
      NarrativeBody(FALSE, << Candidate(<< Content(<< >>) >>) >>),
      NarrativeBody(FALSE, << Candidate(<< Content(<< Part("") >>) >>) >>),
      NarrativeBody(FALSE, << Candidate(<< Content(<< Part("Summary") >>) >>) >>) }

AIProcessingError == "AI Processing Error."

\* data.candidates?.[0]?.content?.parts?.[0]?.text || "AI Processing Error."
\* for a body that is not null
textOf(data) ==
    LET found ==
          IF data.candidates = << >> THEN ""
          ELSE IF data.candidates[1].content = << >> THEN ""
          ELSE IF data.candidates[1].content[1].parts = << >> THEN ""
          ELSE data.candidates[1].content[1].parts[1].text
    IN  IF found # "" THEN found ELSE AIProcessingError

\* marked.parse(text) of one line of text: a paragraph element
markedParse(text) == << "<p>", text, "</p>" >>

AIButton == [ disabled |-> FALSE, label |-> "AI Analysis" ]
AIButtonBusy == [ disabled |-> TRUE, label |-> "Connecting..." ]

\* if (state.currentVol === 0): no water body selected
gateClosed == currentVol = 0

\* the click on #aiBtn (a disabled button gets no click), up to the await of
\* fetch.  The prompt carries state.currentArea and state.currentVol; the
\* coordinates in its text are read by nothing and are left out.
GenerateAIReport ==
    /\ file = "app"
    /\ ~aiBtn.disabled
    /\ IF gateClosed
       THEN /\ toast' = Toast("error", "Select a water body first!", "")
            /\ lastOp' = Handler("aiGate")
            /\ UNCHANGED << aiBtn, aiReq >>
       ELSE /\ aiBtn' = AIButtonBusy
            /\ aiReq' = << [ area |-> currentArea, vol |-> currentVol ] >>
            /\ lastOp' = Handler("aiSend")
            /\ UNCHANGED toast
    /\ UNCHANGED << file, mode, currentLat, currentLng, currentArea, currentVol,
                    layers, isScanning, scanController, overlay, statusText,
                    statusRed, dispLat, dispLon, layerGroup, metrics, charts,
                    layerControl, layerControlPanel, overlayLayerGroup, sess,
                    aiTimers, toggles, arg, aiModal, aiContent >>

\* a catch block that marks the scan status failed, as the one of
\* startScanning does
aiCatchMarksScan(message) ==
    /\ toast' = Toast("error", "AI Error: ", message)
    /\ statusText' = "Error."
    /\ UNCHANGED << aiModal, aiContent >>

\* the catch block of generateAIReport: a notification, nothing else
aiCatch(message) ==
    /\ toast' = Toast("error", "AI Error: ", message)
    /\ UNCHANGED << aiModal, aiContent, statusText >>

\* the body holds a non-empty candidates[0].content.parts[0].text
hasText(data) ==
    /\ ~data.isNull
    /\ data.candidates # << >>
    /\ data.candidates[1].content # << >>
    /\ data.candidates[1].content[1].parts # << >>
    /\ data.candidates[1].content[1].parts[1].text # ""

\* a button re-enabled after the try block only, not after the catch block
aiFinallyAfterTry(threw) == IF threw THEN AIButtonBusy ELSE AIButton

\* the finally block of generateAIReport: the button is enabled and gets its
\* label back, whether or not the try block threw
aiFinally(threw) == AIButton

\* fetch and res.json() resolve with the body data; reading data.candidates
\* of null throws a TypeError, which the catch block reports
ReportResolve ==
    \E data \in NarrativeBodies :
        /\ aiReq # << >>
        /\ IF data.isNull
           THEN aiCatch("Cannot read properties of null")
           ELSE /\ aiContent' = markedParse(textOf(data))
                /\ aiModal' = "flex"
                /\ UNCHANGED << toast, statusText >>
        /\ lastOp' = Handler(IF hasText(data) THEN "aiText" ELSE "aiMissing")
        /\ aiBtn' = aiFinally(data.isNull)
        /\ aiReq' = << >>
        /\ UNCHANGED << file, mode, currentLat, currentLng, currentArea, currentVol,
                        layers, isScanning, scanController, overlay,
                        statusRed, dispLat, dispLon, layerGroup, metrics, charts,
                        layerControl, layerControlPanel, overlayLayerGroup, sess,
                        aiTimers, toggles, arg >>

\* fetch rejects (network failure) or res.json() rejects (no JSON body)
ReportReject ==
    \E message \in {"Failed to fetch", "Unexpected token"} :
        /\ aiReq # << >>
        /\ aiCatch(message)
        /\ lastOp' = Handler("aiError")
        /\ aiBtn' = aiFinally(TRUE)
        /\ aiReq' = << >>
        /\ UNCHANGED << file, mode, currentLat, currentLng, currentArea, currentVol,
                        layers, isScanning, scanController, overlay,
                        statusRed, dispLat, dispLon, layerGroup, metrics, charts,
                        layerControl, layerControlPanel, overlayLayerGroup, sess,
                        aiTimers, toggles, arg >>

\* ------------------------------------------------------- layer checkboxes
\* the change event of the checkbox of toggle i, with e.target.checked =
\* isChecked.  app.js 331: toggleLayer(e.target.checked) on overlayLayerGroup,
\* with the layers mapping the control was built from.  script.js 223-229:
\* addLayer / removeLayer of the layer made with the toggle on
\* state.layerGroup; a LayerGroup holds a layer object once, whatever the
\* number of addLayer calls.
ToggleChange ==
    \E i \in 1..Len(layerControl), isChecked \in BOOLEAN :
        /\ toggles < MaxToggles
        /\ toggles' = toggles + 1
        /\ IF file = "app"
           THEN LET r == toggleLayer(layerControl, overlayLayerGroup, i, isChecked,
                                     layers.url)
                IN  /\ layerControl' = [r.ctl EXCEPT ![i].checked = isChecked]
                    /\ overlayLayerGroup' = r.grp
                    /\ UNCHANGED layerGroup
           ELSE LET layer == layerControl[i].active[1]
                    has   == \E j \in 1..Len(layerGroup) : layerGroup[j] = layer
                IN  /\ layerControl' = [layerControl EXCEPT ![i].checked = isChecked]
                    /\ layerGroup' =
                         IF isChecked
                         THEN IF has THEN layerGroup ELSE Append(layerGroup, layer)
                         ELSE SelectSeq(layerGroup, LAMBDA l : l # layer)
                    /\ UNCHANGED overlayLayerGroup
        /\ lastOp' = Handler(IF isChecked THEN "toggleOn" ELSE "toggleOff")
        /\ UNCHANGED << file, mode, currentLat, currentLng, currentArea, currentVol,
                        layers, isScanning, scanController, overlay, statusText,
                        statusRed, dispLat, dispLon, metrics, charts,
                        layerControlPanel, toast, sess, aiTimers, arg, aiBtn,
                        aiModal, aiContent, aiReq >>

\* ------------------------------------------ the mock scan of DEPLOYMENT.md
\* The script of DEPLOYMENT.md is the same page with startMockScanning in
\* place of the request: file = "mock", its state in the variables of the
\* same names.  Time is counted in units of 500 ms.  A record of sess is then
\* one call of startMockScanning:
\*   age        the time since the call, while a timer of it is pending
\*   st         the timer of it that is pending: "1000", "2000", "3000",
\*              "hide" (the 500 ms timer armed by the completion callback),
\*              or "done"
\*   cancelled  cancelScanning ran while it was the running scan
TimeUnit == 500

\* the object startMockScanning hands to updateMetrics, in hundredths
MockData == [ area |-> 452, volume |-> 1280, avg_elevation |-> 12450,
              max_volume |-> 1500 ]

\* the status text a step timer writes, and the timer that is pending after it
MockStepText(st) == IF st = "1000" THEN "Processing Imagery..."
                                   ELSE "Calculating Metrics..."
MockStepNext(st) == IF st = "1000" THEN "2000" ELSE "3000"

\* when the pending timer of a call is due, in time units since the call
MockDue(st) == IF st = "1000" THEN 1000 \div TimeUnit
               ELSE IF st = "2000" THEN 2000 \div TimeUnit
               ELSE IF st = "3000" THEN 3000 \div TimeUnit
               ELSE (3000 + 500) \div TimeUnit

MockPending(s) == sess[s].st # "done"
MockIsDue(s) == MockPending(s) /\ sess[s].age = MockDue(sess[s].st)

\* how long ago the pending timer of a call was armed: the hide timer is
\* armed when the completion callback runs
MockArmedAgo(s) == IF sess[s].st = "hide" THEN sess[s].age - MockDue("3000")
                                         ELSE sess[s].age

\* timers that are due run in the order they were armed
MockFires(s) ==
    /\ MockIsDue(s)
    /\ \A r \in Sessions \ {s} :
          MockIsDue(r) =>
             \/ MockArmedAgo(r) < MockArmedAgo(s)
             \/ (MockArmedAgo(r) = MockArmedAgo(s) /\ s < r)

MockInit == file = "mock" /\ PageLoaded /\ arg = MetricData(0, 0)

\* startMockScanning up to its three setTimeout calls
startMockScanning ==
    /\ isScanning' = TRUE
    /\ overlay' = "flex"
    /\ statusText' = "Analyzing Data..."
    /\ sess' = Append(sess, [ age |-> 0, st |-> "1000", cancelled |-> FALSE ])

\* a click on the map: onMapClick of DEPLOYMENT.md
MockClick ==
    \E p \in ClickPoints :
        /\ file = "mock"
        /\ IF ignoresClick(FALSE)
           THEN /\ lastOp' = Gesture("click", FALSE)
                /\ UNCHANGED << currentLat, currentLng, dispLat, dispLon,
                                layerGroup, isScanning, overlay, statusText, sess >>
           ELSE /\ Len(sess) < MaxScans
                /\ currentLat' = p.lat
                /\ currentLng' = p.lng
                /\ dispLat' = ToFixed5(p.lat)
                /\ dispLon' = ToFixed5(p.lng)
                /\ layerGroup' = << Marker(p.lat, p.lng) >>
                /\ startMockScanning
                /\ lastOp' = Gesture("click", TRUE)
        /\ UNCHANGED << file, beside, mode, currentArea, currentVol, layers,
                        scanController, statusRed, metrics, charts, layerControl,
                        layerControlPanel, overlayLayerGroup, toast, aiTimers >>

\* cancelScanning of DEPLOYMENT.md: no timer is cleared
MockCancel ==
    /\ file = "mock"
    /\ overlay' = "none"
    /\ isScanning' = FALSE
    /\ toast' = Toast("info", "Cancelled.", "")
    /\ sess' = IF isScanning /\ sess # << >> /\ MockPending(Len(sess))
               THEN [sess EXCEPT ![Len(sess)].cancelled = TRUE]
               ELSE sess
    /\ lastOp' = Handler("cancel")
    /\ UNCHANGED << file, beside, mode, currentLat, currentLng, currentArea,
                    currentVol, layers, scanController, statusText, statusRed,
                    dispLat, dispLon, layerGroup, metrics, charts, layerControl,
                    layerControlPanel, overlayLayerGroup, aiTimers >>

\* the callback of the 1000 ms or of the 2000 ms timer
MockStepTimer ==
    \E s \in Sessions :
        /\ file = "mock"
        /\ MockFires(s)
        /\ sess[s].st \in {"1000", "2000"}
        /\ statusText' = IF isScanning THEN MockStepText(sess[s].st) ELSE statusText
        /\ sess' = [sess EXCEPT ![s].st = MockStepNext(sess[s].st)]
        /\ lastOp' = Other
        /\ UNCHANGED << file, beside, mode, currentLat, currentLng, currentArea,
                        currentVol, layers, isScanning, scanController, overlay,
                        statusRed, dispLat, dispLon, layerGroup, metrics, charts,
                        layerControl, layerControlPanel, overlayLayerGroup, toast,
                        aiTimers >>

\* the callback of the 3000 ms timer
MockCompletion ==
    \E s \in Sessions :
        /\ file = "mock"
        /\ MockFires(s)
        /\ sess[s].st = "3000"
        /\ IF ~isScanning
           THEN /\ sess' = [sess EXCEPT ![s].st = "done", ![s].age = 0]
                /\ lastOp' = Other
                /\ UNCHANGED << statusText, toast, metrics >>
           ELSE /\ statusText' = "Complete."
                /\ toast' = Toast("success", "Analysis Complete (Mock Data)", "")
                /\ metrics' = updateMetricsExport(MockData)
                /\ sess' = [sess EXCEPT ![s].st = "hide"]
                /\ lastOp' = Handler("mockComplete")
        /\ UNCHANGED << file, beside, mode, currentLat, currentLng, currentArea,
                        currentVol, layers, isScanning, scanController, overlay,
                        statusRed, dispLat, dispLon, layerGroup, charts,
                        layerControl, layerControlPanel, overlayLayerGroup,
                        aiTimers >>

\* the callback of the 500 ms timer armed by the completion callback
MockHide ==
    \E s \in Sessions :
        /\ file = "mock"
        /\ MockFires(s)
        /\ sess[s].st = "hide"
        /\ overlay' = "none"
        /\ isScanning' = FALSE
        /\ sess' = [sess EXCEPT ![s].st = "done", ![s].age = 0]
        /\ lastOp' = Other
        /\ UNCHANGED << file, beside, mode, currentLat, currentLng, currentArea,
                        currentVol, layers, scanController, statusText, statusRed,
                        dispLat, dispLon, layerGroup, metrics, charts,
                        layerControl, layerControlPanel, overlayLayerGroup, toast,
                        aiTimers >>

\* one time unit passes: no timer is due, and some timer is pending
MockTick ==
    /\ file = "mock"
    /\ \E s \in Sessions : MockPending(s)
    /\ \A s \in Sessions : ~MockIsDue(s)
    /\ sess' = [ s \in Sessions |->
                   IF MockPending(s) THEN [sess[s] EXCEPT !.age = @ + 1]
                                     ELSE sess[s] ]
    /\ lastOp' = Other
    /\ UNCHANGED << file, beside, mode, currentLat, currentLng, currentArea,
                    currentVol, layers, isScanning, scanController, overlay,
                    statusText, statusRed, dispLat, dispLon, layerGroup, metrics,
                    charts, layerControl, layerControlPanel, overlayLayerGroup,
                    toast, aiTimers >>

MockNext ==
    \/ MockClick
    \/ MockCancel
    \/ MockStepTimer
    \/ MockCompletion
    \/ MockHide
    \/ MockTick

MockSpec == MockInit /\ [][MockNext]_vars

\* --------------------------------------------------------------------- Next
\* the scan lifecycle: gestures of the user, responses, timers
ScanNext ==
    \/ MapClick
    \/ DrawCreated
    \/ SetMode
    \/ CancelScanning
    \/ FetchResolve
    \/ FetchReject
    \/ JsonResolve
    \/ JsonReject
    \/ HideTimer

Next ==
    \/ ScanNext
    \/ TriggerAI
    \/ TriggerAITimer

Spec == Init /\ [][Next]_vars

\* scans that fail or are cancelled before a body is read: every gesture, the
\* cancel button, responses that are not ok, network failures, bodies that
\* are not JSON, hide timers
RetryNext ==
    \/ MapClick
    \/ DrawCreated
    \/ SetMode
    \/ TriggerAI
    \/ TriggerAITimer
    \/ CancelScanning
    \/ FetchResolve
    \/ FetchReject
    \/ JsonReject
    \/ HideTimer

RetrySpec == Init /\ [][RetryNext]_vars

\* the narrative summary of app.js, between and during scans started by map
\* clicks
ReportNext ==
    \/ MapClick
    \/ CancelScanning
    \/ FetchResolve
    \/ FetchReject
    \/ JsonResolve
    \/ JsonReject
    \/ HideTimer
    \/ GenerateAIReport
    \/ ReportResolve
    \/ ReportReject

ReportSpec == Init /\ [][ReportNext]_vars

\* the narrative summary after scans made one after the other
ReportCallNext ==
    \/ MapClick
    \/ FetchResolve
    \/ JsonResolve
    \/ HideTimer
    \/ GenerateAIReport
    \/ ReportResolve
    \/ ReportReject

\* A call of generateAIReport that settles: the request to /api/gemini gets
\* its response or its failure.
ReportLiveSpec ==
    Init /\ [][ReportCallNext]_vars /\ WF_vars(ReportResolve \/ ReportReject)

\* scans made one after the other by map clicks, and the layer checkboxes of
\* their results
LayerNext ==
    \/ MapClick
    \/ FetchResolve
    \/ JsonResolve
    \/ HideTimer
    \/ ToggleChange

LayerSpec == Init /\ [][LayerNext]_vars

\* app.js alone: map clicks, cancels, responses, hide timers and the change
\* events of the layer checkboxes, up to MaxEvents scans and change events
\* in one behaviour
MaxEvents == MaxToggles + 1

OverlayClick == Len(sess) + toggles < MaxEvents /\ MapClick

OverlayChange == Len(sess) + toggles < MaxEvents /\ ToggleChange

OverlayNext ==
    \/ OverlayClick
    \/ CancelScanning
    \/ FetchResolve
    \/ JsonResolve
    \/ HideTimer
    \/ OverlayChange

OverlayInit == Init /\ file = "app"

OverlaySpec == OverlayInit /\ [][OverlayNext]_vars

\* the page with the "AI Analysis" button of app.js left alone: map clicks,
\* completed draws, mode changes, cancels, responses and hide timers
ScanSpec == Init /\ [][ScanNext]_vars

\* The browser runs every timer that was armed.  Responses may never arrive:
\* no timeout bounds the backend.
LiveSpec == Init /\ [][ScanNext]_vars /\ WF_vars(HideTimer)

TypeOK ==
    /\ file \in Files
    /\ mode \in Modes
    /\ isScanning \in BOOLEAN
    /\ overlay \in {"none", "flex"}
    /\ Len(sess) <= MaxScans
    /\ aiTimers \in 0..MaxTriggers
    /\ toggles \in 0..MaxToggles
    /\ aiModal \in {"hidden", "flex"}
    /\ Len(aiReq) <= 1

\* ---------------------------------------------------------- claim vocabulary
\* the current scan: the last one started
Current == Len(sess)
\* the step settles the request of session s
Settles(s) == Outstanding(s) /\ sess'[s].st \notin {"fetch", "json"}
Failed(s) == sess[s].outcome = "failed"
FailedText == IF file = "app" THEN "Error." ELSE "ERROR"
\* the step is a cancelScanning call made while a scan is active
CancelsActive ==
    /\ sess # << >>
    /\ isScanning
    /\ Outstanding(Current)
    /\ ~sess[Current].cancelled
    /\ sess'[Current].cancelled

\* displayed, after a result of a successful scan has been applied to the page
\* as loaded: nothing in it stems from an earlier response
FreshApply(data) ==
    IF file = "app"
    THEN LET r == updateLayerControl(data.layers)
         IN  << updateMetricsApp(data),
                [ trend |-> data.volume, seasonal |-> data.seasonal ],
                r.ctl, TRUE, r.grp, data.area, data.volume,
                [ defined |-> TRUE, url |-> data.layers ] >>
    ELSE << updateMetricsExport(data), [ trend |-> 0, seasonal |-> << 0, 0, 0 >> ],
            IF data.hasLayers THEN addLayerToggles(1, data.layers, << >>) ELSE << >>,
            data.hasLayers, << >>,
            0, 0, [ defined |-> TRUE, url |-> NoLayers ] >>

\* ------------------------------------------------------------------- claims

\* C1: the response of a scan session that was cancelled, or superseded by a
\* newer scan, never changes the displayed state
C1_StaleResponseDiscarded ==
    [][ \A s \in Sessions : (Stale(s) /\ Settles(s)) => displayed' = displayed ]_vars

\* C2: at most one analysis request is in flight in every reachable state
C2_AtMostOneInFlight ==
    Cardinality({ s \in Sessions : Outstanding(s) }) <= 1

C4_CurrentScanKeepsOverlay ==
    (sess # << >> /\ Outstanding(Current) /\ ~sess[Current].cancelled)
        => (overlay = "flex" /\ isScanning)

\* C5: after a scan has ended in failure, the overlay is eventually hidden
\* and state.isScanning eventually false, with no cancel needed
C5_FailureEventuallyUnblocks ==
    (\E s \in Sessions : Failed(s)) ~> (~isScanning /\ overlay = "none")

C5_Witness ==
    /\ sess # << >>
    /\ \A s \in Sessions : sess[s].st = "done"
    /\ toast.type = "error"
    /\ ~isScanning /\ overlay = "none"

\* C6: cancelScanning called while a scan is active hides the overlay, sets
\* state.isScanning to false and clears state.layerGroup in that same step
C6_CancelIsSynchronous ==
    [][ CancelsActive
        => (overlay' = "none" /\ ~isScanning' /\ layerGroup' = << >>) ]_vars

\* C7: a scan the user cancelled never produces an error outcome, whatever
\* its request later resolves to
C7_CancelledNeverFails ==
    [][ \A s \in Sessions :
          (sess[s].cancelled /\ Settles(s))
            => ~(toast'.type = "error" \/ statusText' = FailedText
                 \/ sess'[s].outcome = "failed") ]_vars

\* C8: a scan that ends with the failure outcome leaves the displayed state
\* as it was
C8_FailureOverwritesNothing ==
    [][ \A s \in Sessions :
          (Settles(s) /\ sess'[s].outcome = "failed") => displayed' = displayed ]_vars

\* C9: a non-2xx response and a 2xx body with an error field take the same
\* failure path: status marked failed, an error notification, no view
\* update, nothing else changed; only the reason text depends on which
C9_ErrorBodyFailsLikeNotOk ==
    [][ \A s \in Sessions :
          (Settles(s) /\ lastOp'.op \in {"notOk", "errorBody"})
            => ( /\ statusText' = FailedText
                 /\ (file = "app" => statusRed')
                 /\ toast'.type = "error"
                 /\ toast'.msg = (IF file = "app" THEN "Analysis Failed: " ELSE "Error: ")
                 /\ toast'.reason = (IF lastOp'.op = "notOk" THEN notOkMessage ELSE "X")
                 /\ sess'[s].outcome = "failed"
                 /\ sess'[s].st = "timer"
                 /\ displayed' = displayed
                 /\ UNCHANGED << isScanning, overlay, layerGroup, currentLat,
                                 currentLng, dispLat, dispLon, mode, aiTimers,
                                 scanController >> ) ]_vars

C9_Witness ==
    /\ lastOp.op = "errorBody"
    /\ toast = Toast("error", IF file = "app" THEN "Analysis Failed: " ELSE "Error: ", "X")
    /\ statusText = FailedText
    /\ \E s \in Sessions : Failed(s)

\* C10: when a scan that is neither cancelled nor superseded ends with the
\* success outcome, everything displayed and stored comes from that one
\* response
C10_SuccessShowsOneResponse ==
    [][ \A s \in Sessions :
          (Settles(s) /\ ~Stale(s) /\ sess'[s].outcome = "success")
            => \E data \in ResultsFor(s) : displayed' = FreshApply(data) ]_vars

\* C11: cancelScanning called when no scan is active changes nothing: not
\* isScanning, the overlay, the marker in state.layerGroup or scanController,
\* and it shows no notification
C11_IdleCancelIsNoOp ==
    [][ (lastOp'.op = "cancel" /\ ~isScanning)
        => UNCHANGED << isScanning, overlay, layerGroup, scanController, toast >> ]_vars

\* C12: a request is issued only by an accepted gesture (map click, completed
\* draw, triggerAI timer), one request per gesture; no step that settles,
\* fails or cancels a scan issues one
C12_NoRetries ==
    [][ /\ (Len(sess') > Len(sess))
            => (Len(sess') = Len(sess) + 1 /\ lastOp'.op \in Gestures /\ lastOp'.accepted)
        /\ (lastOp'.op \notin Gestures \/ ~lastOp'.accepted)
            => Len(sess') = Len(sess) ]_vars

\* a scan failed, the user cancelled, and a fresh gesture issued the next request
C12_Witness ==
    /\ Len(sess) = 2
    /\ sess[1].outcome = "failed"
    /\ sess[2].st = "fetch"
    /\ lastOp.op \in Gestures /\ lastOp.accepted

\* the number of layers of key k that a layer group holds
Instances(grp, k) == Cardinality({ j \in 1..Len(grp) : grp[j].key = k })

\* C13: after any rebuilds of the layer control and any change events of its
\* checkboxes, the group the overlays are rendered in (overlayLayerGroup in
\* app.js, state.layerGroup in script.js) holds at most one layer per key
C13_OneOverlayPerKey ==
    \A k \in LayerKeys :
        Instances(overlayLayerGroup, k) <= 1 /\ Instances(layerGroup, k) <= 1

\* the one change event so far was 'on', received by a toggle that was on
\* already: the group holds what the rebuild rendered, and no more
C13_Witness ==
    /\ file = "app"
    /\ toggles = 1
    /\ lastOp.op = "toggleOn"
    /\ Len(layerControl) = 6
    /\ Len(overlayLayerGroup) = 2

\* the keys of the overlays rendered on the map: the tile layers of
\* overlayLayerGroup (app.js) and of state.layerGroup (script.js)
Rendered ==
    { overlayLayerGroup[j].key : j \in 1..Len(overlayLayerGroup) }
      \cup ({ layerGroup[j].key : j \in 1..Len(layerGroup) } \ {"marker"})

DefaultOn == {"analytics", "depth"}

\* the layer control as the claim describes it right after a rebuild from
\* the result data
ControlFor(data) ==
    LET present == DOMAIN data.layers \cap LayerKeys
    IN  /\ Len(layerControl) = Cardinality(present)
        /\ { layerControl[i].key : i \in 1..Len(layerControl) } = present
        /\ Rendered = present \cap DefaultOn
        /\ \A i \in 1..Len(layerControl) :
               layerControl[i].checked = (layerControl[i].key \in DefaultOn)

\* C14: the rebuild of the layer control from a result creates one toggle
\* per key of the six that is present in its layers mapping and none for an
\* absent one; right after it the overlays rendered are those of the present
\* keys among analytics and depth, and every other toggle is off
C14_RebuildTogglesAndDefaults ==
    [][ \A s \in Sessions :
          (Settles(s) /\ lastOp'.op = "layers")
            => \E data \in ResultsFor(s) : data.hasLayers /\ ControlFor(data)' ]_vars

\* updateMetrics has run on arg
Measured == lastOp.op = "updateMetrics"

\* a valid AnalysisResult: volume >= 0; max_volume absent or zero (0), or positive
ValidResult(data) == data.volume >= 0 /\ data.max_volume >= 0

\* C15: for every valid result the fill percentage that updateMetrics
\* displays is a number from 0 to 100, also when volume and max_volume are
\* both zero
C15_FillPctInRange ==
    (Measured /\ ValidResult(arg))
        => (~metrics.fillNaN /\ 0 <= metrics.fillPct /\ metrics.fillPct <= 100)

\* the reference fill percentage: capacity = max_volume if max_volume > 0
\* else volume * 1.5; clamp(round(volume / capacity * 100), 0, 100) when
\* capacity > 0, else 0.  cap2 is twice the capacity.
ReferenceFillPct(volume, max_volume) ==
    LET cap2 == IF max_volume > 0 THEN 2 * max_volume ELSE 3 * volume
        r    == (400 * volume + cap2) \div (2 * cap2)
    IN  IF cap2 > 0
        THEN (IF r < 0 THEN 0 ELSE IF r > 100 THEN 100 ELSE r)
        ELSE 0

\* C16: for every volume and max_volume, negative ones and zero included,
\* updateMetrics displays the reference fill percentage
C16_FillPctIsReference ==
    Measured => ( /\ ~metrics.fillNaN
                  /\ metrics.fillPct = ReferenceFillPct(arg.volume, arg.max_volume) )

\* C17: the class of the fill bar is decided by the fill percentage alone:
\* blue exactly when it is above 80, red exactly when it is below 30, cyan
\* otherwise; volume 12.8 of 15.0 gives 85 and blue, volume 4.52 without
\* max_volume gives 67 and cyan
C17_BucketFromFillPct ==
    Measured =>
        /\ (metrics.fillClass = "bg-blue-500")
              = (~metrics.fillNaN /\ metrics.fillPct > 80)
        /\ (metrics.fillClass = "bg-red-500")
              = (~metrics.fillNaN /\ metrics.fillPct < 30)
        /\ metrics.fillClass \in {"bg-blue-500", "bg-red-500", "bg-cyan-500"}
        /\ (arg = Example1)
              => (metrics.fillPct = 85 /\ metrics.fillClass = "bg-blue-500")
        /\ (arg = Example2)
              => (metrics.fillPct = 67 /\ metrics.fillClass = "bg-cyan-500")

C17_Witness ==
    /\ Measured
    /\ arg = Example1
    /\ metrics.fillPct = 85
    /\ metrics.fillClass = "bg-blue-500"

\* the step is a generateAIReport call or the settling of its request
ReportStep == lastOp'.op \in {"aiGate", "aiSend", "aiText", "aiMissing", "aiError"}

\* C18: generateAIReport, whatever its outcome (gate rejected, text shown,
\* text missing, network error) and whatever scan is under way, leaves
\* state.isScanning, the overlay, the scan status, the metrics, the charts,
\* the layer toggles and state.currentArea / currentVol / layers as they were
C18_ReportLeavesScanState ==
    [][ ReportStep
        => UNCHANGED << isScanning, overlay, statusText, statusRed, sess, displayed,
                        layerGroup >> ]_vars

\* a report request failed on the network while a scan was under way
C18_Witness ==
    /\ lastOp.op = "aiError"
    /\ isScanning /\ overlay = "flex"
    /\ sess # << >> /\ Outstanding(Current)

\* No scan has ended in success so far.  In app.js the layer panel is shown
\* by the last statement of updateLayerControl, which only the success path
\* runs through, and nothing hides it again.
NoScanSucceeded == ~layerControlPanel

\* C19: with no successful scan so far (none yet, or only failed and
\* cancelled ones), generateAIReport sends no request and leaves the button
\* enabled
C19_ReportNeedsSuccessfulScan ==
    [][ (lastOp'.op \in {"aiGate", "aiSend"} /\ NoScanSucceeded)
        => (aiReq' = << >> /\ ~aiBtn'.disabled) ]_vars

\* C20: a narrative response without candidates[0].content.parts[0].text
\* puts the fixed error string in the modal and shows the modal; no error
\* notification is raised
C20_MissingTextShownInModal ==
    [][ (lastOp'.op = "aiMissing")
        => ( /\ aiContent' = markedParse("AI Processing Error.")
             /\ aiModal' = "flex"
             /\ toast' = toast ) ]_vars

\* C21: a generateAIReport call that disabled the button re-enables it once
\* the call settles, whether with a text, without one, or with a network or
\* JSON error
C21_ButtonReenabled ==
    aiBtn.disabled ~> (~aiBtn.disabled /\ aiBtn.label = "AI Analysis" /\ aiReq = << >>)

\* a call that ended in the error notification left the button enabled
C21_Witness ==
    /\ lastOp.op = "aiError"
    /\ aiReq = << >>
    /\ ~aiBtn.disabled

\* C22: in every reachable state of app.js the progress overlay is shown if
\* and only if state.isScanning is true
C22_OverlayIffScanning ==
    file = "app" => ((overlay = "flex") <=> isScanning)

\* the hide timer of a cancelled scan has fired while the request of the scan
\* started after it is still out
C22_Witness ==
    /\ file = "app" /\ Len(sess) = 2
    /\ sess[1].st = "done"
    /\ Outstanding(2) /\ ~sess[2].cancelled
    /\ ~isScanning /\ overlay = "none"

\* everything a handler of the scan flow can write, the pending timers of
\* triggerAI and the step observation aside
scanState ==
    << mode, currentLat, currentLng, currentArea, currentVol, layers, isScanning,
       scanController, overlay, statusText, statusRed, dispLat, dispLon,
       layerGroup, metrics, charts, layerControl, layerControlPanel,
       overlayLayerGroup, toast, sess >>

Clicks == {"click", "aiTimer"}

\* C24: while state.mode is 'draw' a click (plain, or simulated by triggerAI)
\* issues no request and changes no coordinates, and a scan only starts from
\* a draw-created event; while state.mode is 'click' every click received
\* with state.isScanning false starts exactly one scan, for the clicked point
C24_ModeDecidesWhatStartsScan ==
    [][ /\ (lastOp'.op \in Clicks /\ mode = "draw")
            => ( /\ ~lastOp'.accepted
                 /\ UNCHANGED << sess, currentLat, currentLng, dispLat, dispLon >> )
        /\ (mode = "draw" /\ Len(sess') > Len(sess))
            => (lastOp'.op = "draw" /\ lastOp'.accepted)
        /\ (lastOp'.op \in Clicks /\ mode = "click" /\ ~isScanning)
            => ( /\ lastOp'.accepted
                 /\ Len(sess') = Len(sess) + 1
                 /\ \A s \in Sessions : sess'[s] = sess[s]
                 /\ sess'[Len(sess')].st = "fetch"
                 /\ sess'[Len(sess')].lat = currentLat'
                 /\ sess'[Len(sess')].lng = currentLng'
                 /\ isScanning' ) ]_vars

\* a plain click was ignored in draw mode with no scan running, after a scan
\* had been started and ended
C24_Witness ==
    /\ lastOp.op = "click" /\ ~lastOp.accepted
    /\ mode = "draw" /\ ~isScanning
    /\ Len(sess) = 1

\* C25: whenever generateAIReport can build its prompt (state.currentVol is
\* nonzero), state.currentArea / currentVol are those returned by the request
\* issued for the stored coordinates, which is the request of the latest call
\* of startScanning (onMapClick writes state.currentLat / currentLng and
\* calls it)
C25_MetricsBelongToStoredCoordinates ==
    (file = "app" /\ ~gateClosed)
        => ( /\ sess # << >>
             /\ \E d \in ResultsFor(Current) :
                    currentArea = d.area /\ currentVol = d.volume )

\* the keys of the tile layers held by the overlay group of app.js
RenderedInOverlayGroup ==
    { overlayLayerGroup[j].key : j \in 1..Len(overlayLayerGroup) }

\* C26: in app.js, after any scans, cancels, map clicks and change events of
\* the checkboxes, a toggle of the layer control is checked if and only if
\* an overlay for its key is rendered in the overlay group, and clearing the
\* selection marker (a map click, cancelScanning) removes no rendered overlay
C26_CheckedIffRendered ==
    [][ file = "app" =>
          /\ \A i \in 1..Len(layerControl') :
                 layerControl'[i].checked
                    <=> (layerControl'[i].key \in RenderedInOverlayGroup')
          /\ RenderedInOverlayGroup' \subseteq
                 { layerControl'[i].key : i \in 1..Len(layerControl') }
          /\ (lastOp'.op \in {"click", "cancel"})
                 => overlayLayerGroup' = overlayLayerGroup ]_vars

\* cancelScanning has cancelled a second scan and cleared its marker while,
\* of the overlays of the first, one that is on by default was off, one that
\* is off by default was on, and one stayed on
C26_Witness ==
    /\ file = "app" /\ lastOp.op = "cancel" /\ layerGroup = << >>
    /\ Len(sess) = 2 /\ sess[2].cancelled
    /\ RenderedInOverlayGroup = {"depth", "winter"}
    /\ Len(layerControl) = 6

\* a timer callback of the s-th mock scan runs in this step
MockTimerOf(s) == sess'[s].st # sess[s].st

\* C27: in the mock scan of DEPLOYMENT.md a cancelled scan never applies its
\* mock metrics, and the step and completion timers of a cancelled scan
\* never change the status text, the metrics, the overlay or isScanning of
\* a scan started afterwards
C27_CancelledMockScanIsInert ==
    [][ file = "mock" =>
          \A s \in Sessions :
             (MockTimerOf(s) /\ sess[s].cancelled)
                => ( /\ lastOp'.op # "mockComplete"
                     /\ metrics' = metrics
                     /\ (s < Len(sess))
                           => UNCHANGED << statusText, metrics, overlay,
                                           isScanning >> ) ]_vars

====
